---- MODULE Spec2Model ----
(***************************************************************************)
(* waifu2x-ncnn-Vulkan VapourSynth plugin (plugin.cpp): the shared GPU     *)
(* instance count, filter construction (waifu2xCreate), per-frame          *)
(* processing (waifu2xGetFrame / filter) and destruction (waifu2xFree).    *)
(***************************************************************************)
EXTENDS Integers, Sequences, FiniteSets, TLC

\* ------------------------------------------------------------------ bounds

\* threads of the host that construct and destroy filters concurrently
NumThreads == 2
\* threads of the host's pool that serve frames of one filter concurrently
NumFrameThreads == 3
\* waifu2xCreate calls started in one run of the lifecycle specification
MaxCalls == 3
\* frame requests started in one run of the frame specification
MaxFrames == 4
\* Vulkan devices of the machine (ncnn::get_gpu_count())
GpuCount == 2

Threads == 1 .. (IF NumThreads > NumFrameThreads THEN NumThreads ELSE NumFrameThreads)
Creators == 1 .. NumThreads
FrameThreads == 1 .. NumFrameThreads
FilterIds == 1 .. MaxCalls

\* ------------------------------------------------------- the environment

\* ncnn::get_default_gpu_index()
DefaultGpuIndex == 0

\* ncnn::get_gpu_info(i).compute_queue_count(): device 0 has two compute
\* queues, every other device one
compute_queue_count(i) == IF i = 0 THEN 2 ELSE 1

\* ncnn::get_gpu_info(i).device_name()
device_name(i) == "GPU" \o ToString(i)

\* vsapi->getPluginPath(...), as its '/'-separated components
pluginPath == <<"usr", "lib", "vapoursynth", "libvsw2xnvk.so">>

\* ------------------------------------------------------------ the inputs

\* the video info of the source clip: the accepted format and one format
\* failing each operand of the format check
GoodVi == [constant |-> TRUE, colorFamily |-> "cfRGB", sampleType |-> "stFloat",
           bitsPerSample |-> 32, width |-> 16, height |-> 48]
BadVis == { [GoodVi EXCEPT !.constant = FALSE],
            [GoodVi EXCEPT !.colorFamily = "cfYUV"],
            [GoodVi EXCEPT !.sampleType = "stInteger"],
            [GoodVi EXCEPT !.bitsPerSample = 16] }

\* a key of the VSMap holds an array of values: <<>> when the key is unset
NoOptions == [noise |-> <<>>, scale |-> <<>>, tile_w |-> <<>>, tile_h |-> <<>>,
              model |-> <<>>, gpu_id |-> <<>>, gpu_thread |-> <<>>,
              tta |-> <<>>, fp32 |-> <<>>, list_gpu |-> <<>>]

\* every combination of the option values on both sides of every rule
OptionGrid ==
    [noise : {<<>>, <<-2>>, <<-1>>, <<0>>, <<3>>, <<4>>},
     scale : {<<>>, <<0>>, <<1>>, <<2>>, <<3>>},
     tile_w : {<<>>, <<31>>, <<32>>},
     tile_h : {<<>>, <<31>>, <<32>>},
     model : {<<>>, <<-1>>, <<0>>, <<1>>, <<2>>, <<3>>},
     gpu_id : {<<>>, <<-1>>, <<1>>, <<2>>},
     gpu_thread : {<<>>, <<0>>, <<1>>, <<2>>, <<3>>},
     tta : {<<>>},
     fp32 : {<<>>},
     list_gpu : {<<>>, <<1>>}]

\* the options tried with a rejected format (none is read before the check)
FewOptions ==
    { NoOptions,
      [NoOptions EXCEPT !.noise = <<4>>],
      [NoOptions EXCEPT !.list_gpu = <<1>>],
      [NoOptions EXCEPT !.noise = <<-1>>, !.scale = <<1>>] }

\* a request: the "in" map and the video info of its clip
Request(o, v) == [opt |-> o, vi |-> v]

AllInputs == { Request(o, GoodVi) : o \in OptionGrid }
                \cup { Request(o, v) : o \in FewOptions, v \in BadVis }

\* the requests of the concurrent lifecycle: one per way waifu2xCreate ends
LifecycleInputs ==
    { Request(NoOptions, GoodVi),
      Request([NoOptions EXCEPT !.gpu_thread = <<1>>, !.scale = <<1>>], GoodVi),
      Request([NoOptions EXCEPT !.noise = <<-1>>, !.scale = <<1>>], GoodVi),
      Request([NoOptions EXCEPT !.list_gpu = <<1>>], GoodVi),
      Request([NoOptions EXCEPT !.list_gpu = <<1>>, !.gpu_id = <<1>>], GoodVi),
      Request([NoOptions EXCEPT !.noise = <<4>>], GoodVi),
      Request([NoOptions EXCEPT !.gpu_thread = <<3>>], GoodVi),
      Request(NoOptions, [GoodVi EXCEPT !.colorFamily = "cfYUV"]) }

\* requests that construct a filter, with gates of one and of two permits
FilterInputs ==
    { Request(NoOptions, GoodVi),
      Request([NoOptions EXCEPT !.gpu_thread = <<1>>, !.tta = <<1>>, !.fp32 = <<1>>], GoodVi),
      Request([NoOptions EXCEPT !.gpu_thread = <<1>>, !.scale = <<1>>], GoodVi) }

\* ------------------------------------------- option reading (lines 112-139)

\* saturation of an int64 to int
Saturate(v) == IF v > 2147483647 THEN 2147483647
               ELSE IF v < -2147483647 - 1 THEN -2147483647 - 1 ELSE v

\* vsapi->mapGetIntSaturated(in, key, 0, &err): the value and err
mapGetIntSaturated(opt, key) ==
    IF Len(opt[key]) = 0 THEN [val |-> 0, err |-> TRUE]
    ELSE [val |-> Saturate(opt[key][1]), err |-> FALSE]

\* !!vsapi->mapGetInt(in, key, 0, &err)
mapGetBool(opt, key) == Len(opt[key]) # 0 /\ opt[key][1] # 0

\* static_cast<uint32_t>(v) of line 162, evaluated only when v >= 1, where it
\* keeps the value
ToUint32(v) == v

Max(a, b) == IF a > b THEN a ELSE b

\* an option reading that gives an unset noise the value -1
ResolveOptionsNoiseDefault(opt, vi) ==
    LET get(key) == mapGetIntSaturated(opt, key)
        orElse(key, dflt) == IF get(key).err THEN dflt ELSE get(key).val
    IN [noise |-> orElse("noise", -1),
        scale |-> orElse("scale", 2),
        tile_w |-> orElse("tile_w", Max(vi.width, 32)),
        tile_h |-> orElse("tile_h", Max(vi.height, 32)),
        model |-> orElse("model", 2),
        gpuId |-> orElse("gpu_id", DefaultGpuIndex),
        gpuThread |-> orElse("gpu_thread", 2),
        tta |-> mapGetBool(opt, "tta"),
        fp32 |-> mapGetBool(opt, "fp32"),
        list_gpu |-> mapGetBool(opt, "list_gpu")]

\* the option values waifu2xCreate works with, defaults applied; noise has
\* no default of its own (line 112): unset, it is the 0 mapGetIntSaturated
\* returns with err set
ResolveOptions(opt, vi) ==
    LET get(key) == mapGetIntSaturated(opt, key)
        orElse(key, dflt) == IF get(key).err THEN dflt ELSE get(key).val
    IN [noise |-> get("noise").val,
        scale |-> orElse("scale", 2),
        tile_w |-> orElse("tile_w", Max(vi.width, 32)),
        tile_h |-> orElse("tile_h", Max(vi.height, 32)),
        model |-> orElse("model", 2),
        gpuId |-> orElse("gpu_id", DefaultGpuIndex),
        gpuThread |-> orElse("gpu_thread", 2),
        tta |-> mapGetBool(opt, "tta"),
        fp32 |-> mapGetBool(opt, "fp32"),
        list_gpu |-> mapGetBool(opt, "list_gpu")]

\* ------------------------------------------------ validation (lines 141-163)

\* the format check of lines 102-105
FormatRejected(vi) ==
    \/ ~vi.constant
    \/ vi.colorFamily # "cfRGB"
    \/ vi.sampleType # "stFloat"
    \/ vi.bitsPerSample # 32

\* a validation that rejects nothing
ValidationThrowNothing(o) == "none"

\* the validation without the rule of lines 156-157
ValidationThrowNoCunetRule(o) ==
    IF o.noise < -1 \/ o.noise > 3 THEN "noise"
    ELSE IF o.scale < 1 \/ o.scale > 2 THEN "scale"
    ELSE IF o.tile_w < 32 THEN "tile_w"
    ELSE IF o.tile_h < 32 THEN "tile_h"
    ELSE IF o.model < 0 \/ o.model > 2 THEN "model"
    ELSE IF o.gpuId < 0 \/ o.gpuId >= GpuCount THEN "gpu_id"
    ELSE IF o.gpuThread < 1 \/ ToUint32(o.gpuThread) > compute_queue_count(o.gpuId)
         THEN "gpu_thread"
    ELSE "none"

\* the throw statement the validation of lines 141-163 reaches, "none" if none
ValidationThrow(o) ==
    IF o.noise < -1 \/ o.noise > 3 THEN "noise"
    ELSE IF o.scale < 1 \/ o.scale > 2 THEN "scale"
    ELSE IF o.tile_w < 32 THEN "tile_w"
    ELSE IF o.tile_h < 32 THEN "tile_h"
    ELSE IF o.model < 0 \/ o.model > 2 THEN "model"
    ELSE IF o.model # 2 /\ o.scale = 1 THEN "cunet"
    ELSE IF o.gpuId < 0 \/ o.gpuId >= GpuCount THEN "gpu_id"
    ELSE IF o.gpuThread < 1 \/ ToUint32(o.gpuThread) > compute_queue_count(o.gpuId)
         THEN "gpu_thread"
    ELSE "none"

\* the text each throw statement points to
ErrorText(site, o) ==
    CASE site = "format" -> "only constant RGB format 32 bit float input supported"
      [] site = "gpu" -> "failed to create GPU instance"
      [] site = "noise" -> "noise must be between -1 and 3 (inclusive)"
      [] site = "scale" -> "scale must be 1 or 2"
      [] site = "tile_w" -> "tile_w must be at least 32"
      [] site = "tile_h" -> "tile_h must be at least 32"
      [] site = "model" -> "model must be between 0 and 2 (inclusive)"
      [] site = "cunet" -> "only cunet model supports scale=1"
      [] site = "gpu_id" -> "invalid GPU device"
      [] site = "gpu_thread" -> "gpu_thread must be between 1 and "
                                  \o ToString(compute_queue_count(o.gpuId)) \o " (inclusive)"
      [] site = "load" -> "failed to load model"

\* what the handler of line 268 can read through the thrown pointer: line 163
\* throws the c_str() of a temporary std::string, destroyed before the handler
\* runs, so the text read there is indeterminate
CaughtTexts(site, o) ==
    IF site = "gpu_thread" THEN {ErrorText(site, o), "<indeterminate>"}
    ELSE {ErrorText(site, o)}

\* ------------------------------------- model selection (lines 206-240)

\* a listing whose loop stops one device early
RECURSIVE GpuListTextShort(_)
GpuListTextShort(i) ==
    IF i < GpuCount - 1
    THEN <<ToString(i) \o ": " \o device_name(i)>> \o GpuListTextShort(i + 1)
    ELSE <<>>

\* the text of the list_gpu branch (lines 166-169), from device i on, as the
\* sequence of its lines
RECURSIVE GpuListText(_)
GpuListText(i) ==
    IF i < GpuCount
    THEN <<ToString(i) \o ": " \o device_name(i)>> \o GpuListText(i + 1)
    ELSE <<>>

\* a pass-through test that takes 0 for the level of no denoising
IsPassThroughAtZero(o) == o.noise = 0 /\ o.scale = 1

\* a construction without the short-circuit of line 197
IsPassThroughNever(o) == FALSE

\* the test of line 197
IsPassThrough(o) == o.noise = -1 /\ o.scale = 1

\* pluginPath.substr(0, pluginPath.rfind('/')) + "/models" + the model's directory
ModelDir(o) ==
    SubSeq(pluginPath, 1, Len(pluginPath) - 1) \o <<"models">> \o
        (CASE o.model = 0 -> <<"models-upconv_7_anime_style_art_rgb">>
           [] o.model = 1 -> <<"models-upconv_7_photo">>
           [] o.model = 2 -> <<"models-cunet">>
           [] OTHER -> <<>>)

\* a switch whose cunet case asks for noise == -1 and scale == 2 together
PrepaddingBoth(o) ==
    CASE o.model = 0 -> 7
      [] o.model = 1 -> 7
      [] o.model = 2 -> (IF o.noise = -1 /\ o.scale = 2 THEN 18 ELSE 28)
      [] OTHER -> 0

\* the switch of lines 214-227
Prepadding(o) ==
    CASE o.model = 0 -> 7
      [] o.model = 1 -> 7
      [] o.model = 2 -> (IF o.noise = -1 \/ o.scale = 2 THEN 18 ELSE 28)
      [] OTHER -> 0

\* a selection that takes the noise-only name at scale 2 as well
ArtifactNameNoiseOnly(o) ==
    IF o.noise = -1 THEN "scale2.0x_model"
    ELSE "noise" \o ToString(o.noise) \o "_model"

\* the file name both paths share, up to the extension (lines 231-240)
ArtifactName(o) ==
    IF o.noise = -1 THEN "scale2.0x_model"
    ELSE IF o.scale = 1 THEN "noise" \o ToString(o.noise) \o "_model"
    ELSE "noise" \o ToString(o.noise) \o "_scale2.0x_model"

ParamPath(o) == ModelDir(o) \o <<ArtifactName(o) \o ".param">>
ModelPath(o) == ModelDir(o) \o <<ArtifactName(o) \o ".bin">>

\* the model files a construction can find on disk: the structure file
\* missing, both present and well formed, the weights file missing, the
\* weights file corrupt
FileStates ==
    { [param |-> FALSE, bin |-> TRUE, wellFormed |-> TRUE],
      [param |-> TRUE, bin |-> TRUE, wellFormed |-> TRUE],
      [param |-> TRUE, bin |-> FALSE, wellFormed |-> TRUE],
      [param |-> TRUE, bin |-> TRUE, wellFormed |-> FALSE] }

\* Waifu2x::load: 0, or a failure when the weights cannot be read
Waifu2xLoad(files) == IF files.param /\ files.bin /\ files.wellFormed THEN 0 ELSE -1

\* std::counting_semaphore<>(desired) of line 267
NewSemaphore(desired) == [desired |-> desired, counter |-> desired]

\* the Waifu2x object of lines 247-265: constructed, loaded (the result of
\* load is not looked at), then its fields set
NewWaifu2x(o, files) ==
    [gpuId |-> o.gpuId, tta |-> o.tta, num_threads |-> 1,
     parampath |-> ParamPath(o), modelpath |-> ModelPath(o), fp32 |-> o.fp32,
     loaded |-> Waifu2xLoad(files),
     noise |-> o.noise, scale |-> o.scale, tile_w |-> o.tile_w, tile_h |-> o.tile_h,
     prepadding |-> Prepadding(o)]

\* ------------------------------------------------------------- the state

VARIABLES
    numGPUInstances,    \* static std::atomic<int> numGPUInstances (line 40)
    gpuInstance,        \* number of Vulkan instances ncnn holds: 0 or 1
    inst,               \* the Waifu2xData of every registered filter
    fstate,             \* "none", "live", "freeing" or "freed", per filter
    pc,                 \* where each thread is in the call it runs
    call,               \* the locals of each thread's waifu2xCreate call
    fr,                 \* the locals of each thread's waifu2xGetFrame call
    callsStarted,       \* waifu2xCreate calls started so far
    framesStarted,      \* frame requests started so far
    thrown              \* whether some waifu2xCreate ran its catch handler

vars == <<numGPUInstances, gpuInstance, inst, fstate, pc, call, fr,
          callsStarted, framesStarted, thrown>>

NoCall == [op |-> "none"]
NoFrame == [op |-> "none"]
NoInstance == [node |-> [ref |-> "none"]]

\* a thread between two calls of the host
AtRest(t) == pc[t] \in {"idle", "c_done", "f_done", "g_done"}

Init ==
    /\ numGPUInstances = 0
    /\ gpuInstance = 0
    /\ inst = [f \in FilterIds |-> NoInstance]
    /\ fstate = [f \in FilterIds |-> "none"]
    /\ pc = [t \in Threads |-> "idle"]
    /\ call = [t \in Threads |-> NoCall]
    /\ fr = [t \in Threads |-> NoFrame]
    /\ callsStarted = 0
    /\ framesStarted = 0
    /\ thrown = FALSE

\* the options of thread t's call, as lines 112-139 resolve them
Opts(t) == ResolveOptions(call[t].req.opt, call[t].req.vi)

\* ------------------------------------------- waifu2xCreate (lines 94-281)

\* ncnn::create_gpu_instance(): the results it can return with n instances
\* held; it keeps the instance it has, and creating one can fail
CreateGpuInstanceResults(n) == IF n > 0 THEN {0} ELSE {0, -1}

\* freeNode that is left out: the reference stays as it was
ReleaseNodeKept(node, how) == node

\* lines 176, 198, 270 and 87: mapConsumeNode or freeNode gives up the
\* reference taken at line 98; released counts how often that happened
ReleaseNode(node, how) == [node EXCEPT !.ref = how, !.released = @ + 1]

\* a scaling that leaves the height as it was
ScaledViWidthOnly(vi, scale) == [vi EXCEPT !.width = @ * scale]

\* lines 206-207: d->vi.width *= scale; d->vi.height *= scale
ScaledVi(vi, scale) == [vi EXCEPT !.width = @ * scale, !.height = @ * scale]

\* a branch order that looks at list_gpu before the validation
BranchListFirst(o) ==
    IF o.list_gpu THEN "list_gpu"
    ELSE IF ValidationThrow(o) # "none" THEN "throw"
    ELSE IF IsPassThrough(o) THEN "pass_through"
    ELSE "engine"

\* lines 141-204: the branch waifu2xCreate takes, in the order of the code:
\* the throws of the validation, if (list_gpu), if (noise == -1 && scale == 1),
\* then the construction of the engine
Branch(o) ==
    IF ValidationThrow(o) # "none" THEN "throw"
    ELSE IF o.list_gpu THEN "list_gpu"
    ELSE IF IsPassThrough(o) THEN "pass_through"
    ELSE "engine"

\* lines 95-109: make_unique, mapGetNode, getVideoInfo, the format check and
\* create_gpu_instance
CreateBegin(t, r) ==
    /\ AtRest(t)
    /\ callsStarted < MaxCalls
    /\ callsStarted' = callsStarted + 1
    /\ LET c == [op |-> "create", req |-> r,
                 d |-> [node |-> [vi |-> r.vi, ref |-> "held", released |-> 0], vi |-> r.vi,
                        waifu2x |-> <<>>, semaphore |-> <<>>],
                 out |-> [error |-> "", nSetError |-> 0, clip |-> "none", text |-> <<>>,
                          filter |-> 0],
                 exc |-> "none", files |-> <<>>,
                 nInc |-> 0, nDec |-> 0, before |-> numGPUInstances,
                 events |-> <<>>]
       IN IF FormatRejected(r.vi)
          THEN /\ call' = [call EXCEPT ![t] = [c EXCEPT !.exc = "format"]]
               /\ pc' = [pc EXCEPT ![t] = "c_catch"]
               /\ UNCHANGED gpuInstance
          ELSE \E res \in CreateGpuInstanceResults(gpuInstance) :
                 IF res # 0
                 THEN /\ call' = [call EXCEPT ![t] = [c EXCEPT !.exc = "gpu"]]
                      /\ pc' = [pc EXCEPT ![t] = "c_catch"]
                      /\ UNCHANGED gpuInstance
                 ELSE /\ call' = [call EXCEPT ![t] = [c EXCEPT !.events = <<"create_gpu_instance">>]]
                      /\ pc' = [pc EXCEPT ![t] = "c_body"]
                      /\ gpuInstance' = 1
    /\ UNCHANGED <<numGPUInstances, inst, fstate, fr, framesStarted, thrown>>

\* vsapi->invoke(Text): the clip it returns, or its error
TextResults == {"clip", "error"}

\* lines 110-267: ++numGPUInstances, the options, the validation and the
\* branch taken, up to the next access to shared state
CreateBody(t) ==
    /\ pc[t] = "c_body"
    /\ numGPUInstances' = numGPUInstances + 1
    /\ LET c == [call[t] EXCEPT !.nInc = @ + 1, !.events = Append(@, "increment")]
           o == Opts(t)
           site == ValidationThrow(o)
           branch == Branch(o)
       IN IF branch = "throw"
          THEN /\ call' = [call EXCEPT ![t] = [c EXCEPT !.exc = site]]
               /\ pc' = [pc EXCEPT ![t] = "c_catch"]
          ELSE IF branch = "list_gpu"
          THEN \E ret \in TextResults :
                 /\ call' = [call EXCEPT ![t] =
                       [c EXCEPT !.d.node = ReleaseNode(@, "consumed"),
                                 !.events = @ \o <<"validated", "list_gpu">>,
                                 !.out = IF ret = "error"
                                         THEN [@ EXCEPT !.error = "Text: error", !.nSetError = @ + 1]
                                         ELSE [@ EXCEPT !.clip = "text",
                                                        !.text = GpuListText(0)]]]
                 /\ pc' = [pc EXCEPT ![t] = "c_release"]
          ELSE IF branch = "pass_through"
          THEN /\ call' = [call EXCEPT ![t] =
                     [c EXCEPT !.d.node = ReleaseNode(@, "consumed"),
                               !.events = @ \o <<"validated", "pass_through">>,
                               !.out.clip = "source"]]
               /\ pc' = [pc EXCEPT ![t] = "c_release"]
          ELSE \E files \in FileStates :
                 LET e == [c EXCEPT !.d.vi = ScaledVi(@, o.scale),
                                    !.files = <<files>>,
                                    !.events = Append(@, "validated")]
                 IN IF ~files.param
                    THEN /\ call' = [call EXCEPT ![t] = [e EXCEPT !.exc = "load"]]
                         /\ pc' = [pc EXCEPT ![t] = "c_catch"]
                    ELSE /\ call' = [call EXCEPT ![t] =
                               [e EXCEPT !.d.waifu2x = <<NewWaifu2x(o, files)>>,
                                         !.d.semaphore = <<NewSemaphore(o.gpuThread)>>,
                                         !.events = @ \o <<"engine", "load", "semaphore">>]]
                         /\ pc' = [pc EXCEPT ![t] = "c_register"]
    /\ UNCHANGED <<gpuInstance, inst, fstate, fr, callsStarted, framesStarted, thrown>>

\* lines 268-272: the handler sets the error, frees the node and decrements
CreateCatch(t) ==
    /\ pc[t] = "c_catch"
    /\ numGPUInstances' = numGPUInstances - 1
    /\ thrown' = TRUE
    /\ \E text \in CaughtTexts(call[t].exc, Opts(t)) :
         call' = [call EXCEPT ![t] =
                    [@ EXCEPT !.out.error = "waifu2x-ncnn-Vulkan: " \o text,
                              !.out.nSetError = @ + 1,
                              !.d.node = ReleaseNode(@, "freed"),
                              !.nDec = @ + 1, !.events = Append(@, "decrement")]]
    /\ pc' = [pc EXCEPT ![t] = IF numGPUInstances' = 0 THEN "c_destroy" ELSE "c_done"]
    /\ UNCHANGED <<gpuInstance, inst, fstate, fr, callsStarted, framesStarted>>

\* lines 181, 191 and 200: the decrement that ends a short-circuit
CreateRelease(t) ==
    /\ pc[t] = "c_release"
    /\ numGPUInstances' = numGPUInstances - 1
    /\ call' = [call EXCEPT ![t] =
                  [@ EXCEPT !.nDec = @ + 1, !.events = Append(@, "decrement")]]
    /\ pc' = [pc EXCEPT ![t] = IF numGPUInstances' = 0 THEN "c_destroy" ELSE "c_done"]
    /\ UNCHANGED <<gpuInstance, inst, fstate, fr, callsStarted, framesStarted, thrown>>

\* lines 182, 192, 201 and 273: ncnn::destroy_gpu_instance()
CreateDestroy(t) ==
    /\ pc[t] = "c_destroy"
    /\ gpuInstance' = 0
    /\ call' = [call EXCEPT ![t] = [@ EXCEPT !.events = Append(@, "destroy_gpu_instance")]]
    /\ pc' = [pc EXCEPT ![t] = "c_done"]
    /\ UNCHANGED <<numGPUInstances, inst, fstate, fr, callsStarted, framesStarted, thrown>>

\* the identifier the host gives the next filter
NextFilterId == CHOOSE f \in FilterIds :
                    fstate[f] = "none" /\ \A g \in FilterIds : g < f => fstate[g] # "none"

\* lines 278-280: createVideoFilter hands the instance data to the host
CreateRegister(t) ==
    /\ pc[t] = "c_register"
    /\ \E f \in FilterIds : fstate[f] = "none"
    /\ LET f == NextFilterId
       IN /\ inst' = [inst EXCEPT ![f] = call[t].d]
          /\ fstate' = [fstate EXCEPT ![f] = "live"]
          /\ call' = [call EXCEPT ![t] =
                        [@ EXCEPT !.out.clip = "filter", !.out.filter = f,
                                  !.events = Append(@, "createVideoFilter")]]
    /\ pc' = [pc EXCEPT ![t] = "c_done"]
    /\ UNCHANGED <<numGPUInstances, gpuInstance, fr, callsStarted, framesStarted, thrown>>

\* --------------------------------------------- waifu2xFree (lines 85-92)

\* the frame requests of filter f that have not returned
InFlight(f) == { t \in Threads : pc[t] \in {"g_requested", "g_acquire", "g_process", "g_release"}
                                  /\ fr[t].f = f }

\* lines 86-87: the host frees a filter once, when none of its frames is in
\* flight; freeNode comes first
FreeBegin(t, f) ==
    /\ AtRest(t)
    /\ fstate[f] = "live"
    /\ InFlight(f) = {}
    /\ fstate' = [fstate EXCEPT ![f] = "freeing"]
    /\ inst' = [inst EXCEPT ![f] = [@ EXCEPT !.node = ReleaseNode(@, "freed")]]
    /\ call' = [call EXCEPT ![t] = [op |-> "free", f |-> f,
                                    events |-> <<"freeNode">>]]
    /\ pc' = [pc EXCEPT ![t] = "f_delete"]
    /\ UNCHANGED <<numGPUInstances, gpuInstance, fr, callsStarted, framesStarted, thrown>>

\* a waifu2xFree without delete d: the engine and the semaphore stay
FreeDeleteKept(t) ==
    /\ pc[t] = "f_delete"
    /\ pc' = [pc EXCEPT ![t] = "f_dec"]
    /\ UNCHANGED <<numGPUInstances, gpuInstance, inst, fstate, call, fr, callsStarted,
                   framesStarted, thrown>>

\* line 88: delete d destroys the engine and the semaphore it owns
FreeDelete(t) ==
    /\ pc[t] = "f_delete"
    /\ inst' = [inst EXCEPT ![call[t].f] = [@ EXCEPT !.waifu2x = <<>>, !.semaphore = <<>>]]
    /\ call' = [call EXCEPT ![t] = [@ EXCEPT !.events = Append(@, "delete")]]
    /\ pc' = [pc EXCEPT ![t] = "f_dec"]
    /\ UNCHANGED <<numGPUInstances, gpuInstance, fstate, fr, callsStarted, framesStarted,
                   thrown>>

\* line 90: --numGPUInstances == 0
FreeDec(t) ==
    /\ pc[t] = "f_dec"
    /\ numGPUInstances' = numGPUInstances - 1
    /\ call' = [call EXCEPT ![t] = [@ EXCEPT !.events = Append(@, "decrement")]]
    /\ IF numGPUInstances' = 0
       THEN /\ pc' = [pc EXCEPT ![t] = "f_destroy"]
            /\ UNCHANGED fstate
       ELSE /\ pc' = [pc EXCEPT ![t] = "f_done"]
            /\ fstate' = [fstate EXCEPT ![call[t].f] = "freed"]
    /\ UNCHANGED <<gpuInstance, inst, fr, callsStarted, framesStarted, thrown>>

\* line 91: ncnn::destroy_gpu_instance()
FreeDestroy(t) ==
    /\ pc[t] = "f_destroy"
    /\ gpuInstance' = 0
    /\ call' = [call EXCEPT ![t] = [@ EXCEPT !.events = Append(@, "destroy_gpu_instance")]]
    /\ pc' = [pc EXCEPT ![t] = "f_done"]
    /\ fstate' = [fstate EXCEPT ![call[t].f] = "freed"]
    /\ UNCHANGED <<numGPUInstances, inst, fr, callsStarted, framesStarted, thrown>>

\* ------------------------------- waifu2xGetFrame and filter (lines 49-83)

\* the frame numbers the host asks for
FrameNumbers == 0 .. 1

\* Waifu2x::process: 0, or a failure of the engine
ProcessResults == {0, -1}

\* an acquire that also passes at a counter of zero
CanAcquireAtZero(counter) == counter >= 0

\* std::counting_semaphore::acquire returns when the counter is positive
CanAcquire(counter) == counter > 0

\* lines 70-71, activationReason == arInitial: the source frame is requested
\* and nullptr returned
GetFrameInitial(t, f, n) ==
    /\ AtRest(t)
    /\ fstate[f] = "live"
    /\ framesStarted < MaxFrames
    /\ framesStarted' = framesStarted + 1
    /\ fr' = [fr EXCEPT ![t] = [op |-> "frame", f |-> f, n |-> n, state |-> "Requested",
                                src |-> <<>>, dst |-> <<>>, result |-> <<>>,
                                returned |-> <<>>, nAcquire |-> 0, nRelease |-> 0]]
    /\ pc' = [pc EXCEPT ![t] = "g_requested"]
    /\ UNCHANGED <<numGPUInstances, gpuInstance, inst, fstate, call, callsStarted, thrown>>

\* lines 72-74 and 50-59, activationReason == arAllFramesReady: the source
\* frame is fetched and the destination frame allocated with the size of d->vi
GetFrameReady(t) ==
    /\ pc[t] = "g_requested"
    /\ LET d == inst[fr[t].f]
       IN fr' = [fr EXCEPT ![t] =
                   [@ EXCEPT !.state = "Ready",
                             !.src = <<[width |-> d.node.vi.width, height |-> d.node.vi.height]>>,
                             !.dst = <<[width |-> d.vi.width, height |-> d.vi.height]>>]]
    /\ pc' = [pc EXCEPT ![t] = "g_acquire"]
    /\ UNCHANGED <<numGPUInstances, gpuInstance, inst, fstate, call,
                   callsStarted, framesStarted, thrown>>

\* line 61: d->semaphore->acquire()
FilterAcquire(t) ==
    /\ pc[t] = "g_acquire"
    /\ CanAcquire(inst[fr[t].f].semaphore[1].counter)
    /\ inst' = [inst EXCEPT ![fr[t].f].semaphore[1].counter = @ - 1]
    /\ fr' = [fr EXCEPT ![t] = [@ EXCEPT !.state = "Gated", !.nAcquire = @ + 1]]
    /\ pc' = [pc EXCEPT ![t] = "g_process"]
    /\ UNCHANGED <<numGPUInstances, gpuInstance, fstate, call,
                   callsStarted, framesStarted, thrown>>

\* line 62: d->waifu2x->process(...) returns; its result is not looked at
FilterProcess(t) ==
    /\ pc[t] = "g_process"
    /\ \E res \in ProcessResults :
         fr' = [fr EXCEPT ![t] = [@ EXCEPT !.state = "Processed", !.result = <<res>>]]
    /\ pc' = [pc EXCEPT ![t] = "g_release"]
    /\ UNCHANGED <<numGPUInstances, gpuInstance, inst, fstate, call,
                   callsStarted, framesStarted, thrown>>

\* a filter() that returns without d->semaphore->release()
FilterReleaseKept(t) ==
    /\ pc[t] = "g_release"
    /\ fr' = [fr EXCEPT ![t] = [@ EXCEPT !.state = "Published",
                                         !.src = <<>>, !.returned = fr[t].dst]]
    /\ pc' = [pc EXCEPT ![t] = "g_done"]
    /\ UNCHANGED <<numGPUInstances, gpuInstance, inst, fstate, call,
                   callsStarted, framesStarted, thrown>>

\* lines 63 and 78-79: d->semaphore->release(), freeFrame(src), return dst
FilterRelease(t) ==
    /\ pc[t] = "g_release"
    /\ inst' = [inst EXCEPT ![fr[t].f].semaphore[1].counter = @ + 1]
    /\ fr' = [fr EXCEPT ![t] = [@ EXCEPT !.state = "Published", !.nRelease = @ + 1,
                                         !.src = <<>>, !.returned = fr[t].dst]]
    /\ pc' = [pc EXCEPT ![t] = "g_done"]
    /\ UNCHANGED <<numGPUInstances, gpuInstance, fstate, call,
                   callsStarted, framesStarted, thrown>>

\* ---------------------------------------------------- the specifications

\* the instance data a construction with every option unset registers
DefaultInstance ==
    LET o == ResolveOptions(NoOptions, GoodVi)
    IN [node |-> [vi |-> GoodVi, ref |-> "held", released |-> 0],
        vi |-> ScaledVi(GoodVi, o.scale),
        waifu2x |-> <<NewWaifu2x(o, [param |-> TRUE, bin |-> TRUE, wellFormed |-> TRUE])>>,
        semaphore |-> <<NewSemaphore(o.gpuThread)>>]

\* the process before the call under study: no filter yet, or one filter
\* that another thread constructed with every option unset
InitCreate ==
    \E live \in BOOLEAN :
        /\ numGPUInstances = (IF live THEN 1 ELSE 0)
        /\ gpuInstance = (IF live THEN 1 ELSE 0)
        /\ inst = [f \in FilterIds |-> IF live /\ f = 1 THEN DefaultInstance ELSE NoInstance]
        /\ fstate = [f \in FilterIds |-> IF live /\ f = 1 THEN "live" ELSE "none"]
        /\ pc = [t \in Threads |-> "idle"]
        /\ call = [t \in Threads |-> NoCall]
        /\ fr = [t \in Threads |-> NoFrame]
        /\ callsStarted = (IF live THEN 1 ELSE 0)
        /\ framesStarted = 0
        /\ thrown = FALSE

\* one waifu2xCreate call, on every request of AllInputs
NextCreate ==
    \/ pc[1] = "idle" /\ \E r \in AllInputs : CreateBegin(1, r)
    \/ CreateBody(1)
    \/ CreateCatch(1)
    \/ CreateRelease(1)
    \/ CreateDestroy(1)
    \/ CreateRegister(1)

SpecCreate == InitCreate /\ [][NextCreate]_vars

\* one step of thread t constructing or destroying filters
LifecycleStep(t) ==
    \/ \E r \in LifecycleInputs : CreateBegin(t, r)
    \/ CreateBody(t)
    \/ CreateCatch(t)
    \/ CreateRelease(t)
    \/ CreateDestroy(t)
    \/ CreateRegister(t)
    \/ \E f \in FilterIds : FreeBegin(t, f)
    \/ FreeDelete(t)
    \/ FreeDec(t)
    \/ FreeDestroy(t)

\* filters constructed and destroyed by concurrent threads of the host
Next == \E t \in Creators : LifecycleStep(t)

Spec == Init /\ [][Next]_vars

\* concurrent threads constructing filters, every request one that
\* validation accepts and no short-circuit takes, and destroying them
NextValid ==
    \E t \in Creators :
        \/ \E r \in FilterInputs : CreateBegin(t, r)
        \/ CreateBody(t)
        \/ CreateCatch(t)
        \/ CreateDestroy(t)
        \/ CreateRegister(t)
        \/ \E f \in FilterIds : FreeBegin(t, f)
        \/ FreeDelete(t)
        \/ FreeDec(t)
        \/ FreeDestroy(t)

SpecValid == Init /\ [][NextValid]_vars

\* filters constructed and destroyed one call after the other
NextSeq == LifecycleStep(1)

SpecSeq == Init /\ [][NextSeq]_vars

\* one filter, its frames served by the threads of the host's pool, and its
\* destruction
NextFrames ==
    \/ pc[1] = "idle" /\ \E r \in FilterInputs : CreateBegin(1, r)
    \/ CreateBody(1)
    \/ CreateCatch(1)
    \/ CreateDestroy(1)
    \/ CreateRegister(1)
    \/ \E t \in FrameThreads :
        \/ \E f \in FilterIds, n \in FrameNumbers : GetFrameInitial(t, f, n)
        \/ GetFrameReady(t)
        \/ FilterAcquire(t)
        \/ FilterProcess(t)
        \/ FilterRelease(t)
    \/ \E f \in FilterIds : FreeBegin(1, f)
    \/ FreeDelete(1)
    \/ FreeDec(1)
    \/ FreeDestroy(1)

SpecFrames == Init /\ [][NextFrames]_vars

\* the instance data the construction of request r registers when its model
\* files are there
InstanceOf(r) ==
    LET o == ResolveOptions(r.opt, r.vi)
    IN [node |-> [vi |-> r.vi, ref |-> "held", released |-> 0],
        vi |-> ScaledVi(r.vi, o.scale),
        waifu2x |-> <<NewWaifu2x(o, [param |-> TRUE, bin |-> TRUE, wellFormed |-> TRUE])>>,
        semaphore |-> <<NewSemaphore(o.gpuThread)>>]

\* the process once one filter has been constructed, before its first frame
InitGate ==
    /\ numGPUInstances = 1
    /\ gpuInstance = 1
    /\ \E r \in FilterInputs :
         inst = [f \in FilterIds |-> IF f = 1 THEN InstanceOf(r) ELSE NoInstance]
    /\ fstate = [f \in FilterIds |-> IF f = 1 THEN "live" ELSE "none"]
    /\ pc = [t \in Threads |-> "idle"]
    /\ call = [t \in Threads |-> NoCall]
    /\ fr = [t \in Threads |-> NoFrame]
    /\ callsStarted = 1
    /\ framesStarted = 0
    /\ thrown = FALSE

\* the frame requests the threads of the host's pool serve on that filter
NextGate ==
    \E t \in FrameThreads :
        \/ \E f \in FilterIds, n \in FrameNumbers : GetFrameInitial(t, f, n)
        \/ GetFrameReady(t)
        \/ FilterAcquire(t)
        \/ FilterProcess(t)
        \/ FilterRelease(t)

\* a fair scheduler: a thread that can take a permit does so, every process
\* call returns, and a thread that left process releases and returns
FairFrames ==
    \A t \in FrameThreads :
        /\ WF_vars(FilterAcquire(t))
        /\ WF_vars(FilterProcess(t))
        /\ WF_vars(FilterRelease(t))

SpecGate == InitGate /\ [][NextGate]_vars /\ FairFrames

\* ------------------------------------------------------------ the claims

\* the threads inside the process call of filter f's engine
InsideProcess(f) == { t \in Threads : pc[t] = "g_process" /\ fr[t].f = f }

\* the threads waiting at the semaphore of filter f
WaitingAtGate(f) == { t \in Threads : pc[t] = "g_acquire" /\ fr[t].f = f }

\* thread t has returned from a waifu2xCreate call
CreateDone(t) == pc[t] = "c_done" /\ call[t].op = "create"

\* C1: a filter constructed with gpu_thread = K has a semaphore constructed
\* with K, and at no time are more than K threads inside the process call of
\* its engine, whatever the interleaving of the frame requests
C1_AtMostKInsideProcess ==
    /\ \A t \in Threads :
         CreateDone(t) /\ call[t].out.filter # 0 =>
            call[t].d.semaphore[1].desired = Opts(t).gpuThread
    /\ \A f \in FilterIds :
         fstate[f] = "live" =>
            Cardinality(InsideProcess(f)) <= inst[f].semaphore[1].desired

\* C1 witness: a gate of two permits with two threads inside process and a
\* third one held back at the gate
C1_Witness ==
    \E f \in FilterIds :
        /\ fstate[f] = "live"
        /\ inst[f].semaphore[1].desired = 2
        /\ Cardinality(InsideProcess(f)) = 2
        /\ WaitingAtGate(f) # {}

\* C7: a frame whose process call reported a failure is not published: the
\* request does not end with its destination frame returned to the host as
\* a result
C7_FailedFrameNotPublished ==
    \A t \in Threads :
        pc[t] = "g_done" /\ fr[t].result = <<-1>> =>
            fr[t].state # "Published" /\ fr[t].returned = <<>>

\* no thread is inside a waifu2xCreate or a waifu2xFree call
Quiescent == \A t \in Threads : AtRest(t)

\* the filters ever registered, and those whose waifu2xFree has completed
Constructed == { f \in FilterIds : fstate[f] # "none" }
Freed == { f \in FilterIds : fstate[f] = "freed" }

\* no waifu2xCreate call has thrown so far: every construction succeeded
NoRejection ==
    /\ ~thrown
    /\ \A t \in Threads : call[t].op = "create" => call[t].exc = "none"

\* C2: with every construction successful, in every quiescent state the
\* shared context exists iff numGPUInstances is nonzero, and once every
\* constructed filter has been freed the count is zero and the context
\* destroyed
C2_ContextIffCountNonzero ==
    Quiescent /\ NoRejection =>
        /\ (gpuInstance > 0 <=> numGPUInstances # 0)
        /\ (Constructed # {} /\ Freed = Constructed =>
                numGPUInstances = 0 /\ gpuInstance = 0)

\* C3: with every construction successful, in no state of any interleaving
\* of waifu2xCreate and waifu2xFree is numGPUInstances positive while the
\* shared context is destroyed, and there is never more than one context
C3_NoReferenceWithoutContext ==
    NoRejection =>
        /\ (numGPUInstances > 0 => gpuInstance > 0)
        /\ gpuInstance <= 1

\* C4: a construction that failed leaves numGPUInstances as it found it,
\* decrementing it exactly as often as it incremented it (not at all when it
\* failed before the increment), and numGPUInstances is never negative
C4_FailureReleasesWhatItAcquired ==
    /\ numGPUInstances >= 0
    /\ \A t \in Threads :
         CreateDone(t) /\ call[t].exc # "none" =>
            /\ call[t].nDec = call[t].nInc
            /\ numGPUInstances = call[t].before

\* C5: while a constructed filter has not been freed, the shared context
\* exists
C5_ContextOutlivesFilters ==
    (\E f \in FilterIds : fstate[f] = "live") => gpuInstance > 0

\* some rule of the option validation is violated by the options o
RuleViolated(o) ==
    \/ o.noise < -1 \/ o.noise > 3
    \/ o.scale \notin {1, 2}
    \/ o.tile_w < 32
    \/ o.tile_h < 32
    \/ o.model \notin {0, 1, 2}
    \/ (o.model # 2 /\ o.scale = 1)
    \/ o.gpuId \notin 0 .. (GpuCount - 1)
    \/ o.gpuThread \notin 1 .. compute_queue_count(o.gpuId)

\* the throw statements of the option validation
ValidationSites == {"noise", "scale", "tile_w", "tile_h", "model", "cunet",
                    "gpu_id", "gpu_thread"}

\* thread t's call got past the format check and created the GPU instance
ReachedValidation(t) == ~FormatRejected(call[t].req.vi) /\ call[t].exc # "gpu"

\* thread t's call constructed no engine and no gate and registered no
\* filter (every filter there is was registered by an earlier call)
NothingConstructed(t) ==
    /\ call[t].d.waifu2x = <<>>
    /\ call[t].d.semaphore = <<>>
    /\ call[t].out.filter = 0
    /\ Constructed = 1 .. (callsStarted - 1)

\* C6: a request violating a validation rule ends with one error set on the
\* output map and no filter created, thrown by the validation whenever the
\* call got that far; a request violating none is not rejected by validation
C6_ValidationRejects ==
    \A t \in Threads :
        CreateDone(t) =>
            /\ RuleViolated(Opts(t)) =>
                  /\ call[t].out.error # ""
                  /\ call[t].out.nSetError = 1
                  /\ call[t].out.clip = "none"
                  /\ NothingConstructed(t)
                  /\ (ReachedValidation(t) => call[t].exc \in ValidationSites)
            /\ ~RuleViolated(Opts(t)) => call[t].exc \notin ValidationSites

\* C6 witness: scale = 1 with model 0 was rejected by the validation
C6_Witness ==
    \E t \in Threads :
        /\ CreateDone(t)
        /\ Opts(t).scale = 1 /\ Opts(t).model = 0
        /\ call[t].exc = "cunet"
        /\ call[t].out.error = "waifu2x-ncnn-Vulkan: only cunet model supports scale=1"

\* C8: a construction whose model artifact cannot be opened or loaded (the
\* structure file, the weights file, or the engine's load) fails: an error
\* is set, no filter is created and its reference is released
C8_UnloadableModelFails ==
    \A t \in Threads :
        CreateDone(t) /\ call[t].files # <<>>
          /\ (~call[t].files[1].param \/ ~call[t].files[1].bin
                \/ ~call[t].files[1].wellFormed) =>
            /\ call[t].out.error # ""
            /\ call[t].out.filter = 0
            /\ call[t].nDec = 1

\* C9: a request with noise = -1 and scale = 1 and list_gpu unset that
\* passes validation is a pass-through: the output clip is the source node,
\* the geometry is the input's, nothing is constructed or registered and
\* numGPUInstances is what it was before the call
C9_PassThrough ==
    \A t \in Threads :
        CreateDone(t) /\ ReachedValidation(t) /\ ~RuleViolated(Opts(t))
          /\ Opts(t).noise = -1 /\ Opts(t).scale = 1 /\ ~Opts(t).list_gpu =>
            /\ call[t].out.clip = "source"
            /\ call[t].out.error = ""
            /\ call[t].d.node.ref = "consumed"
            /\ call[t].d.vi = call[t].req.vi
            /\ NothingConstructed(t)
            /\ call[t].nInc = 1 /\ call[t].nDec = 1
            /\ numGPUInstances = call[t].before

\* C9 witness: a pass-through call has returned while another filter lives
C9_Witness ==
    \E t \in Threads :
        /\ CreateDone(t)
        /\ Opts(t).noise = -1 /\ Opts(t).scale = 1 /\ ~Opts(t).list_gpu
        /\ call[t].out.clip = "source"
        /\ call[t].before = 1

\* the enumeration of all devices, one line per device
ExpectedListing == [i \in 1 .. GpuCount |-> ToString(i - 1) \o ": " \o device_name(i - 1)]

\* the list_gpu outcome: the listing, or Text's error, nothing constructed
\* or registered, and the reference taken released exactly once
ListingOutcome(t) ==
    /\ \/ /\ call[t].out.clip = "text"
          /\ call[t].out.text = ExpectedListing
          /\ call[t].out.error = ""
       \/ /\ call[t].out.clip = "none"
          /\ call[t].out.error = "Text: error"
          /\ call[t].out.nSetError = 1
    /\ NothingConstructed(t)
    /\ call[t].nInc = 1 /\ call[t].nDec = 1
    /\ numGPUInstances = call[t].before

\* C10 as stated: with list_gpu = true (the format accepted and the GPU
\* instance created) the output is the listing, or Text's error
C10_Original ==
    \A t \in Threads :
        CreateDone(t) /\ ReachedValidation(t) /\ Opts(t).list_gpu => ListingOutcome(t)

\* C10: with list_gpu = true and every validation rule passed, the output is
\* the listing of all devices, or Text's error; no engine, gate or filter is
\* made and the reference taken is released exactly once in both cases
C10_ListGpu ==
    \A t \in Threads :
        CreateDone(t) /\ ReachedValidation(t) /\ Opts(t).list_gpu
          /\ ~RuleViolated(Opts(t)) => ListingOutcome(t)

\* C10 witness: a list_gpu call whose Text invocation returned an error
C10_Witness ==
    \E t \in Threads :
        /\ CreateDone(t)
        /\ Opts(t).list_gpu
        /\ call[t].out.error = "Text: error"
        /\ call[t].nDec = 1

\* ------------------------------------------------- the size of the frames

\* the scale the engine of filter f was configured with
ConfiguredScale(f) == inst[f].waifu2x[1].scale

\* frame a has the size of frame b times k in both directions
IsScaled(a, b, k) == a.width = k * b.width /\ a.height = k * b.height

\* C11: for every filter that was constructed, the destination frame of a
\* request is scale times as wide and scale times as high as its source
\* frame, with the configured scale 1 or 2 and any model: while the source
\* frame is held, and for the frame waifu2xGetFrame returns.
C11_DestinationSize ==
    \A t \in Threads :
        /\ (pc[t] \in {"g_acquire", "g_process", "g_release"})
              => /\ ConfiguredScale(fr[t].f) \in {1, 2}
                 /\ IsScaled(fr[t].dst[1], fr[t].src[1], ConfiguredScale(fr[t].f))
        /\ (pc[t] = "g_done" /\ fstate[fr[t].f] = "live")
              => /\ fr[t].returned # <<>>
                 /\ IsScaled(fr[t].returned[1], inst[fr[t].f].node.vi,
                             ConfiguredScale(fr[t].f))

\* a frame of 32 by 96 was returned for the source of 16 by 48 at scale 2
C11_Witness ==
    \E t \in Threads :
        /\ pc[t] = "g_done" /\ fstate[fr[t].f] = "live"
        /\ ConfiguredScale(fr[t].f) = 2
        /\ inst[fr[t].f].node.vi.width = 16 /\ inst[fr[t].f].node.vi.height = 48
        /\ fr[t].returned = <<[width |-> 32, height |-> 96]>>

\* ------------------------------------------------------ the unset noise

\* the last component of a path
FileName(path) == path[Len(path)]

\* thread t's request leaves noise unset, sets scale = 1, passes the
\* validation and does not ask for the device list
NoiseOmittedScaleOne(t) ==
    /\ CreateDone(t) /\ ReachedValidation(t)
    /\ call[t].req.opt.noise = <<>>
    /\ call[t].req.opt.scale = <<1>>
    /\ call[t].req.opt.list_gpu = <<>>
    /\ call[t].exc \notin ValidationSites

\* C12 as stated: an unset noise resolves to -1, so a request that leaves
\* noise unset and sets scale = 1 (model 2) is a pass-through
C12_Original ==
    \A t \in Threads :
        NoiseOmittedScaleOne(t) =>
            /\ call[t].out.clip = "source"
            /\ call[t].d.waifu2x = <<>>

\* C12: an unset noise resolves to 0: the validation never rejects it, an
\* engine constructed for such a request has noise 0, and with scale = 1
\* (model 2) the request is no pass-through but goes on to the engine with
\* the artifact noise0_model and a padding of 28
C12_OmittedNoiseIsZero ==
    \A t \in Threads :
        CreateDone(t) /\ ReachedValidation(t) /\ call[t].req.opt.noise = <<>> =>
            /\ call[t].exc # "noise"
            /\ call[t].d.waifu2x # <<>> => call[t].d.waifu2x[1].noise = 0
            /\ NoiseOmittedScaleOne(t) =>
                  /\ call[t].out.clip # "source"
                  /\ call[t].d.node.ref # "consumed"
                  /\ call[t].out.clip = "filter" \/ call[t].exc = "load"
                  /\ call[t].out.clip = "filter" =>
                        /\ FileName(call[t].d.waifu2x[1].parampath) = "noise0_model.param"
                        /\ call[t].d.waifu2x[1].prepadding = 28

\* C12 witness: a request without noise and with scale = 1 registered a
\* filter whose engine has noise 0
C12_Witness ==
    \E t \in Threads :
        /\ NoiseOmittedScaleOne(t)
        /\ call[t].out.clip = "filter"
        /\ inst[call[t].out.filter].waifu2x[1].noise = 0
        /\ inst[call[t].out.filter].waifu2x[1].scale = 1

\* ------------------------------------------- the order of a construction

\* step e is among the steps ev
Has(ev, e) == \E i \in 1 .. Len(ev) : ev[i] = e

\* where both happened, step a happened before step b
Precedes(ev, a, b) ==
    \A i, j \in 1 .. Len(ev) : ev[i] = a /\ ev[j] = b => i < j

\* step b happened only after step a
Requires(ev, b, a) == Has(ev, b) => Has(ev, a) /\ Precedes(ev, a, b)

\* C13 as stated: the validation comes before the GPU context is acquired,
\* and a request whose options fail the validation neither creates the
\* context nor increments numGPUInstances
C13_Original ==
    \A t \in Threads :
        call[t].op = "create" =>
            /\ Precedes(call[t].events, "validated", "create_gpu_instance")
            /\ Precedes(call[t].events, "validated", "increment")
            /\ call[t].exc \in ValidationSites =>
                  /\ call[t].nInc = 0
                  /\ ~Has(call[t].events, "create_gpu_instance")

\* C13: a construction acquires the GPU context first (create_gpu_instance,
\* then the increment of numGPUInstances), validates the options after
\* that, and only then constructs the engine, loads the weights and
\* constructs the gate, in this order; a request whose options fail the
\* validation has created the context and incremented the count, and its
\* handler decrements the count once; an engine exists only for options
\* that violate no rule, a gate only with an engine
C13_ConstructionOrder ==
    \A t \in Threads :
        call[t].op = "create" =>
            LET ev == call[t].events
            IN /\ Requires(ev, "increment", "create_gpu_instance")
               /\ Requires(ev, "validated", "increment")
               /\ Requires(ev, "engine", "validated")
               /\ Requires(ev, "load", "engine")
               /\ Requires(ev, "semaphore", "load")
               /\ call[t].exc \in ValidationSites =>
                     /\ call[t].nInc = 1
                     /\ SubSeq(ev, 1, 2) = <<"create_gpu_instance", "increment">>
                     /\ ~Has(ev, "validated")
                     /\ call[t].d.waifu2x = <<>>
                     /\ CreateDone(t) => call[t].nDec = 1
               /\ call[t].d.waifu2x # <<>> =>
                     /\ call[t].exc = "none"
                     /\ ~RuleViolated(Opts(t))
                     /\ call[t].nInc = 1
                     /\ gpuInstance = 1
               /\ call[t].d.semaphore # <<>> => call[t].d.waifu2x # <<>>

\* C13 witness: with no context before the call, a request rejected by the
\* validation has created the context, incremented the count, decremented
\* it and destroyed the context again
C13_Witness ==
    \E t \in Threads :
        /\ CreateDone(t)
        /\ call[t].exc \in ValidationSites
        /\ call[t].before = 0
        /\ call[t].events = <<"create_gpu_instance", "increment", "decrement",
                              "destroy_gpu_instance">>

\* ------------------------------------------------- the order of a free

\* the engine and the gate of filter f are destroyed
EngineGone(f) == inst[f].waifu2x = <<>> /\ inst[f].semaphore = <<>>

\* C14: waifu2xFree releases the source node first, then destroys the
\* engine and the gate, then decrements numGPUInstances, and destroys the
\* shared context only when that decrement reached zero; at the decrement
\* and at the destruction of the context the engine of the filter being
\* freed no longer exists
C14_FreeOrder ==
    \A t \in Threads :
        call[t].op = "free" =>
            LET f == call[t].f
                ev == call[t].events
            IN /\ pc[t] = "f_delete" =>
                     /\ ev = <<"freeNode">>
                     /\ inst[f].node.ref = "freed"
                     /\ inst[f].waifu2x # <<>> /\ inst[f].semaphore # <<>>
               /\ pc[t] = "f_dec" =>
                     /\ ev = <<"freeNode", "delete">>
                     /\ EngineGone(f)
               /\ pc[t] = "f_destroy" =>
                     /\ ev = <<"freeNode", "delete", "decrement">>
                     /\ EngineGone(f)
                     /\ numGPUInstances = 0
               /\ pc[t] = "f_done" =>
                     /\ EngineGone(f)
                     /\ inst[f].node.released = 1
                     /\ \/ /\ ev = <<"freeNode", "delete", "decrement">>
                           /\ numGPUInstances # 0
                        \/ /\ ev = <<"freeNode", "delete", "decrement",
                                      "destroy_gpu_instance">>
                           /\ numGPUInstances = 0
                           /\ gpuInstance = 0

\* C14 witness: the free of the last filter has destroyed the context after
\* the node, the engine and the reference
C14_Witness ==
    \E t \in Threads :
        /\ call[t].op = "free" /\ pc[t] = "f_done"
        /\ call[t].events = <<"freeNode", "delete", "decrement", "destroy_gpu_instance">>
        /\ EngineGone(call[t].f)
        /\ gpuInstance = 0

\* ------------------------------------------ the padding and the artifact

\* thread t's call has constructed its engine
HasEngine(t) == call[t].op = "create" /\ call[t].d.waifu2x # <<>>

\* C15: the padding set on every engine constructed is 7 for model 0, 7 for
\* model 1, and for model 2 it is 18 when noise = -1 or scale = 2 and 28
\* otherwise; it is 28 exactly when model = 2, scale = 1 and noise in 0..3
C15_Padding ==
    \A t \in Threads :
        HasEngine(t) =>
            LET e == call[t].d.waifu2x[1]
                model == Opts(t).model
            IN /\ model \in {0, 1, 2}
               /\ model = 0 => e.prepadding = 7
               /\ model = 1 => e.prepadding = 7
               /\ model = 2 /\ (e.noise = -1 \/ e.scale = 2) => e.prepadding = 18
               /\ model = 2 /\ ~(e.noise = -1 \/ e.scale = 2) => e.prepadding = 28
               /\ e.prepadding = 28 <=> (model = 2 /\ e.scale = 1 /\ e.noise \in 0 .. 3)

\* C15 witness: a cunet engine with noise 3 and scale 2 got a padding of 18
C15_Witness ==
    \E t \in Threads :
        /\ HasEngine(t) /\ CreateDone(t)
        /\ Opts(t).model = 2
        /\ call[t].d.waifu2x[1].noise = 3 /\ call[t].d.waifu2x[1].scale = 2
        /\ call[t].d.waifu2x[1].prepadding = 18

\* the directory of a model variant, next to the plugin
VariantDirectory(model) ==
    <<"usr", "lib", "vapoursynth", "models",
      CASE model = 0 -> "models-upconv_7_anime_style_art_rgb"
        [] model = 1 -> "models-upconv_7_photo"
        [] model = 2 -> "models-cunet">>

\* the decimal digit of a noise level
NoiseDigit(n) == CASE n = 0 -> "0" [] n = 1 -> "1" [] n = 2 -> "2" [] n = 3 -> "3"

\* the artifact the claim names for a noise level and a scale
ExpectedArtifact(noise, scale) ==
    IF noise = -1 THEN "scale2.0x"
    ELSE IF scale = 1 THEN "noise" \o NoiseDigit(noise)
    ELSE "noise" \o NoiseDigit(noise) \o "_scale2.0x"

\* C16: every engine constructed gets its weight artifact from the
\* directory of its model variant, chosen by noise and scale: scale2.0x
\* when noise = -1, else noise<N> when scale = 1, else noise<N>_scale2.0x;
\* the .param path and the .bin path name the same artifact
C16_Artifact ==
    \A t \in Threads :
        HasEngine(t) =>
            LET e == call[t].d.waifu2x[1]
                dir == VariantDirectory(Opts(t).model)
                artifact == ExpectedArtifact(e.noise, e.scale)
            IN /\ e.parampath = dir \o <<artifact \o "_model.param">>
               /\ e.modelpath = dir \o <<artifact \o "_model.bin">>

\* C16 witness: the upconv photo engine with noise 3 and scale 2 got the
\* combined artifact from its directory
C16_Witness ==
    \E t \in Threads :
        /\ HasEngine(t) /\ CreateDone(t)
        /\ Opts(t).model = 1
        /\ call[t].d.waifu2x[1].parampath =
              <<"usr", "lib", "vapoursynth", "models", "models-upconv_7_photo",
                "noise3_scale2.0x_model.param">>
        /\ call[t].d.waifu2x[1].modelpath =
              <<"usr", "lib", "vapoursynth", "models", "models-upconv_7_photo",
                "noise3_scale2.0x_model.bin">>

\* ------------------------------------------------------------- the gate

\* the threads that hold a permit of filter f
HoldingPermit(f) ==
    { t \in Threads : pc[t] \in {"g_process", "g_release"} /\ fr[t].f = f }

\* every frame has acquired at most once and released only what it
\* acquired, and the permits of a live filter are those not held
PermitAccounting ==
    /\ \A t \in Threads :
         fr[t].op = "frame" =>
            /\ pc[t] \in {"g_requested", "g_acquire"} =>
                  fr[t].nAcquire = 0 /\ fr[t].nRelease = 0
            /\ pc[t] \in {"g_process", "g_release"} =>
                  fr[t].nAcquire = 1 /\ fr[t].nRelease = 0
            /\ pc[t] = "g_done" =>
                  fr[t].nAcquire = 1 /\ fr[t].nRelease = 1
    /\ \A f \in FilterIds :
         fstate[f] = "live" =>
            /\ inst[f].semaphore[1].desired >= 1
            /\ inst[f].semaphore[1].counter =
                  inst[f].semaphore[1].desired - Cardinality(HoldingPermit(f))
            /\ InFlight(f) = {} =>
                  inst[f].semaphore[1].counter = inst[f].semaphore[1].desired

\* C17: under a fair scheduler and with process calls that return, every
\* frame waiting at the gate is eventually admitted and its destination
\* frame eventually returned; every frame acquires once and releases once,
\* after its process call, and with no frame in flight all K permits of the
\* gate are available
C17_EventualAdmission ==
    /\ []PermitAccounting
    /\ \A t \in FrameThreads :
         (pc[t] = "g_acquire") ~> (pc[t] = "g_process")
    /\ \A t \in FrameThreads :
         (pc[t] = "g_acquire") ~> (pc[t] = "g_done" /\ fr[t].returned # <<>>)

\* C17 witness: at a gate of one permit a frame waits with no permit left
\* while another frame is inside process and a third one has been returned
C17_Witness ==
    \E f \in FilterIds :
        /\ fstate[f] = "live"
        /\ inst[f].semaphore[1].desired = 1
        /\ inst[f].semaphore[1].counter = 0
        /\ WaitingAtGate(f) # {}
        /\ InsideProcess(f) # {}
        /\ \E t \in Threads :
             pc[t] = "g_done" /\ fr[t].f = f /\ fr[t].nRelease = 1 /\ fr[t].returned # <<>>

\* ----------------------------------------------- the source node reference

\* C18: the node reference a construction obtains is given up exactly once
\* on every path: freed by the handler when the construction fails,
\* consumed into the arguments of Text on the list_gpu path, consumed into
\* the output on the pass-through path, and otherwise held by the filter
\* registered and freed once by waifu2xFree; never given up twice, and
\* held after the call only by a registered filter
C18_NodeReleasedOnce ==
    /\ \A t \in Threads :
         call[t].op = "create" =>
            LET node == call[t].d.node
            IN /\ node.released <= 1
               /\ node.ref = "held" <=> node.released = 0
               /\ CreateDone(t) =>
                     /\ call[t].exc # "none" =>
                           node.ref = "freed" /\ node.released = 1
                     /\ call[t].exc = "none" /\ Opts(t).list_gpu =>
                           /\ node.ref = "consumed" /\ node.released = 1
                           /\ call[t].out.clip \in {"text", "none"}
                     /\ call[t].out.clip = "source" =>
                           node.ref = "consumed" /\ node.released = 1
                     /\ node.released = 0 =>
                           /\ call[t].out.clip = "filter"
                           /\ fstate[call[t].out.filter] # "none"
    /\ \A f \in FilterIds :
         /\ fstate[f] = "live" =>
               inst[f].node.ref = "held" /\ inst[f].node.released = 0
         /\ fstate[f] \in {"freeing", "freed"} =>
               inst[f].node.ref = "freed" /\ inst[f].node.released = 1

\* C18 witness: one filter has been freed, its node freed once, and a later
\* list_gpu call has consumed its node into the arguments of Text
C18_Witness ==
    /\ \E f \in FilterIds : fstate[f] = "freed" /\ inst[f].node.released = 1
    /\ \E t \in Threads :
         /\ CreateDone(t) /\ Opts(t).list_gpu
         /\ call[t].d.node.ref = "consumed" /\ call[t].d.node.released = 1

\* ------------------------------------------------ the order of the branches

\* C19: a construction that got to the validation takes its branches in the
\* order validation, listing, pass-through, engine: a violated rule ends in
\* the validation error with no listing and no pass-through even with
\* list_gpu set; with every rule passed list_gpu gives the listing (or the
\* error of Text) even with noise = -1 and scale = 1; only without list_gpu
\* do noise = -1 and scale = 1 give the pass-through; everything else goes
\* on to the engine
C19_BranchOrder ==
    \A t \in Threads :
        CreateDone(t) /\ ReachedValidation(t) =>
            LET o == Opts(t)
                ev == call[t].events
                passThrough == o.noise = -1 /\ o.scale = 1
            IN /\ RuleViolated(o) =>
                     /\ call[t].exc \in ValidationSites
                     /\ call[t].out.clip = "none" /\ call[t].out.text = <<>>
                     /\ ~Has(ev, "list_gpu") /\ ~Has(ev, "pass_through")
               /\ ~RuleViolated(o) /\ o.list_gpu =>
                     /\ Has(ev, "list_gpu") /\ ~Has(ev, "pass_through")
                     /\ call[t].out.clip \in {"text", "none"}
                     /\ call[t].out.clip = "text" => call[t].out.text = ExpectedListing
                     /\ call[t].out.clip = "none" => call[t].out.error = "Text: error"
                     /\ call[t].d.waifu2x = <<>>
               /\ ~RuleViolated(o) /\ ~o.list_gpu /\ passThrough =>
                     /\ Has(ev, "pass_through")
                     /\ call[t].out.clip = "source"
                     /\ call[t].d.waifu2x = <<>>
               /\ ~RuleViolated(o) /\ ~o.list_gpu /\ ~passThrough =>
                     /\ ~Has(ev, "list_gpu") /\ ~Has(ev, "pass_through")
                     /\ call[t].out.clip = "filter" \/ call[t].exc = "load"

\* C19 witness: list_gpu with gpu_thread unset on the device with a single
\* compute queue ended in the validation error of gpu_thread, no listing
C19_Witness ==
    \E t \in Threads :
        /\ CreateDone(t)
        /\ call[t].req.opt.list_gpu = <<1>>
        /\ call[t].req.opt.gpu_thread = <<>>
        /\ Opts(t).gpuThread = 2 /\ compute_queue_count(Opts(t).gpuId) = 1
        /\ call[t].exc = "gpu_thread"
        /\ call[t].out.clip = "none" /\ call[t].out.text = <<>>

\* -------------------------------------- the artifact, the scale, the model

\* the file names of the three kinds of artifact, with extension ext
FixedArtifacts(ext) == {"scale2.0x_model" \o ext}
CombinedArtifacts(ext) ==
    {"noise" \o NoiseDigit(n) \o "_scale2.0x_model" \o ext : n \in 0 .. 3}
NoiseOnlyArtifacts(ext) == {"noise" \o NoiseDigit(n) \o "_model" \o ext : n \in 0 .. 3}

\* the directory a path lies in
Directory(path) == path[Len(path) - 1]

\* C20: on every engine constructed the artifact agrees with the scale and
\* the model: the fixed scale2.0x artifact and the combined
\* noise<N>_scale2.0x artifact occur only with scale = 2, the noise-only
\* artifact only with scale = 1 and model 2 and so only in the directory of
\* cunet, never in those of models 0 and 1; for the .param as for the .bin
C20_ArtifactConsistent ==
    \A t \in Threads :
        HasEngine(t) =>
            LET e == call[t].d.waifu2x[1]
                Consistent(path, ext) ==
                    /\ FileName(path) \in FixedArtifacts(ext) \cup CombinedArtifacts(ext)
                                            \cup NoiseOnlyArtifacts(ext)
                    /\ FileName(path) \in FixedArtifacts(ext) \cup CombinedArtifacts(ext)
                          => e.scale = 2
                    /\ FileName(path) \in NoiseOnlyArtifacts(ext)
                          => /\ e.scale = 1
                             /\ Opts(t).model = 2
                             /\ Directory(path) = "models-cunet"
            IN /\ Consistent(e.parampath, ".param")
               /\ Consistent(e.modelpath, ".bin")

\* C20 witness: a cunet engine of scale 1 got the noise-only artifact
\* noise3_model from the directory of cunet
C20_Witness ==
    \E t \in Threads :
        /\ HasEngine(t) /\ CreateDone(t)
        /\ call[t].d.waifu2x[1].scale = 1
        /\ FileName(call[t].d.waifu2x[1].parampath) = "noise3_model.param"
        /\ FileName(call[t].d.waifu2x[1].modelpath) = "noise3_model.bin"
        /\ Directory(call[t].d.waifu2x[1].parampath) = "models-cunet"

====
